---- MODULE Spec2Model ----
(***************************************************************************)
(* A model of resume_tailor: the retry loop around the completion port,    *)
(* the section tailoring operations, the document merger, the keyword      *)
(* extractor and the generate / batch commands that sequence them.         *)
(*                                                                         *)
(* Python dicts are insertion-ordered: a dict is modelled as a sequence of *)
(* <<key, value>> pairs with pairwise distinct keys.                       *)
(***************************************************************************)
EXTENDS FiniteSets, Integers, Sequences, TLC

VARIABLES
    \* a call of merge_sections: its arguments and its result, the static
    \* mapping as the caller holds it after the call, and the result of a second
    \* call on the same arguments
    m_phase, m_in, m_out, m_static, m_again,
    \* a call of _llm_call_with_retry: its arguments, the loop index, the number
    \* of completion calls made, what each completion call did, and how it ended
    r_phase, max_retries, expected_keys, attempt, r_calls, r_log, r_ret,
    \* a call of _extract_technical_terms: the words of the serialized document
    \* and the list returned, and the list a second call on the same words returns
    k_phase, k_text, k_out, k_again,
    \* a call of _clean_llm_output: the response text and the text returned
    c_phase, c_content, c_cleaned,
    \* the construction of an ExperienceEntry: the highlights given and stored
    e_phase, e_given, e_highlights,
    \* a call of GeminiLLM.chat: the messages, and the system instruction,
    \* history and message the API was called with
    g_phase, g_messages, g_request,
    \* the command line: the command, the number of job files and the files
    \* the run reads
    command, n_jobs, base_file, static_file,
    \* the position of the command: the job at hand and the step of its run
    job, pc, entry,
    \* the locals of the job's generate_tailored_resume
    job_details, tailored_summary, tailored_experience, tailored_skills,
    complete_resume,
    \* what _llm_call_with_retry returned to each caller of the job's run, in
    \* call order: job details, summary, each experience entry, skills
    rets,
    \* whether generate_tailored_resume has been entered; the list of entries
    \* it hands to _tailor_experience; the steps of the job begun so far, in
    \* order; the completion calls made inside generate_tailored_resume
    in_run, original_experience, trace, run_calls,
    \* the jobs started, in order; the jobs whose document is saved; the jobs
    \* rendered; the failures reported, as <<job, step>>
    started, written, rendered, reported

mergeVars == <<m_phase, m_in, m_out, m_static, m_again>>

retryVars == <<r_phase, max_retries, expected_keys, attempt, r_calls, r_log, r_ret>>

keywordVars == <<k_phase, k_text, k_out, k_again>>

cleanVars == <<c_phase, c_content, c_cleaned>>

entryVars == <<e_phase, e_given, e_highlights>>

geminiVars == <<g_phase, g_messages, g_request>>

cliVars ==
    <<command, n_jobs, base_file, static_file, job, pc, entry, job_details,
      tailored_summary, tailored_experience, tailored_skills, complete_resume,
      rets, in_run, original_experience, trace, run_calls,
      started, written, rendered, reported>>

vars == <<mergeVars, retryVars, keywordVars, cleanVars, entryVars, geminiVars, cliVars>>

----------------------------------------------------------------------------
(* Bounds of the model.                                                    *)

MaxStaticSections == 3

\* the largest number of experience entries of a base resume
MaxEntries == 2

\* the largest number of job files of a batch
MaxJobs == 3

\* the largest number of tokens of a response given to the fence cleanup
MaxResponseLen == 5

\* the largest number of characters of a highlight, and of highlights of an entry
MaxHighlightLen == 3

MaxHighlights == 2

\* the largest number of messages of a chat
MaxMessages == 3

\* the largest number of words of a text given to the keyword extractor
MaxTextLen == 4

\* the largest max_retries a direct call of _llm_call_with_retry is given
MaxRetriesBound == 2

----------------------------------------------------------------------------
(* Ordered dicts.                                                          *)

EmptyDict == <<>>

Keys(d) == [i \in 1..Len(d) |-> d[i][1]]

KeySet(d) == {d[i][1] : i \in 1..Len(d)}

Has(d, k) == \E i \in 1..Len(d) : d[i][1] = k

Get(d, k) == d[CHOOSE i \in 1..Len(d) : d[i][1] = k][2]

\* d.get(k, default)
GetOr(d, k, default) == IF Has(d, k) THEN Get(d, k) ELSE default

\* d[k] = v : an existing key keeps its position, a new key goes last
Put(d, k, v) ==
    IF Has(d, k)
    THEN [i \in 1..Len(d) |-> IF d[i][1] = k THEN <<k, v>> ELSE d[i]]
    ELSE Append(d, <<k, v>>)

\* d.update(other), from other's i-th item on
RECURSIVE Update(_, _, _)
Update(d, other, i) ==
    IF i > Len(other) THEN d
    ELSE Update(Put(d, other[i][1], other[i][2]), other, i + 1)

\* Optional values: None, or Some(x)
None == [some |-> FALSE]

Some(x) == [some |-> TRUE, val |-> x]

\* Sequences over S of length at most n without a repeated element
RECURSIVE SeqsNoRepeat(_, _)
SeqsNoRepeat(S, n) ==
    IF n = 0 THEN {<<>>}
    ELSE LET shorter == SeqsNoRepeat(S, n - 1)
         IN shorter \cup
            {Append(q, x) : <<q, x>> \in
                {<<q, x>> \in shorter \X S :
                    /\ Len(q) = n - 1
                    /\ \A i \in 1..Len(q) : q[i] # x}}

----------------------------------------------------------------------------
(* TemplateManager.merge_sections                                          *)

DynamicKeys == <<"summary", "skills", "experience">>

\* the dynamic sections in the order the dynamic dict holds them
InsertDynamic_dict_order(cv_sections, dynamic_sections, i) ==
    Update(cv_sections,
           SelectSeq(dynamic_sections,
                     LAMBDA kv : \E j \in 1..Len(DynamicKeys) : DynamicKeys[j] = kv[1]),
           1)

\* lines 128-135: the dynamic sections that are present, in the fixed order
RECURSIVE InsertDynamic(_, _, _)
InsertDynamic(cv_sections, dynamic_sections, i) ==
    IF i > Len(DynamicKeys) THEN cv_sections
    ELSE InsertDynamic(
            IF Has(dynamic_sections, DynamicKeys[i])
            THEN Put(cv_sections, DynamicKeys[i], Get(dynamic_sections, DynamicKeys[i]))
            ELSE cv_sections,
            dynamic_sections, i + 1)

\* the static sections put in front of what is already there
RECURSIVE AddStaticRest_prepend(_, _, _)
AddStaticRest_prepend(cv_sections, static_cv_sections, i) ==
    IF i > Len(static_cv_sections) THEN cv_sections
    ELSE AddStaticRest_prepend(
            IF ~Has(cv_sections, static_cv_sections[i][1])
            THEN <<static_cv_sections[i]>> \o cv_sections
            ELSE cv_sections,
            static_cv_sections, i + 1)

\* lines 137-141: the static sections whose key is not yet there, in static order
RECURSIVE AddStaticRest(_, _, _)
AddStaticRest(cv_sections, static_cv_sections, i) ==
    IF i > Len(static_cv_sections) THEN cv_sections
    ELSE AddStaticRest(
            IF ~Has(cv_sections, static_cv_sections[i][1])
            THEN Put(cv_sections, static_cv_sections[i][1], static_cv_sections[i][2])
            ELSE cv_sections,
            static_cv_sections, i + 1)

\* the keys of the settings block stored in an order that differs from one call
\* to the next
SettingsBlock_call_order(bold_keywords, renderer_config) ==
    LET s1 == IF Len(bold_keywords) > 0
              THEN <<<<"bold_keywords", bold_keywords>>>> ELSE EmptyDict
        s2 == IF renderer_config.some
              THEN <<<<"render_command",
                       <<<<"output_folder_name", renderer_config.val.output_folder>>>>>>>>
              ELSE EmptyDict
    IN IF m_phase = "merged" THEN s2 \o s1 ELSE s1 \o s2

\* the settings block without the renderer's output folder
SettingsBlock_keywords_only(bold_keywords, renderer_config) ==
    IF Len(bold_keywords) > 0
    THEN <<<<"bold_keywords", bold_keywords>>>> ELSE EmptyDict

\* lines 143-153
SettingsBlock(bold_keywords, renderer_config) ==
    LET s0 == EmptyDict
        s1 == IF Len(bold_keywords) > 0
              THEN Put(s0, "bold_keywords", bold_keywords) ELSE s0
        s2 == IF renderer_config.some
              THEN Put(s1, "render_command",
                       <<<<"output_folder_name", renderer_config.val.output_folder>>>>)
              ELSE s1
    IN s2

\* the overrides with the theme stored after them
ConfigDesign_theme_last(renderer_config) ==
    Put(renderer_config.design_overrides, "theme", renderer_config.theme)

\* lines 158-161: {'theme': renderer_config.theme, **renderer_config.design_overrides}
ConfigDesign(renderer_config) ==
    Update(<<<<"theme", renderer_config.theme>>>>, renderer_config.design_overrides, 1)

\* resume['cv'] bound to the static cv mapping itself, whose sections are then
\* overwritten in place
static_after_merge_aliased(static_sections, dynamic_sections) ==
    LET static_cv == GetOr(static_sections, "cv", EmptyDict)
        static_cv_sections == GetOr(static_cv, "sections", EmptyDict)
        cv_sections == AddStaticRest(InsertDynamic(EmptyDict, dynamic_sections, 1),
                                     static_cv_sections, 1)
    IN Put(static_sections, "cv", Put(static_cv, "sections", cv_sections))

\* lines 118-141: what the call leaves in the static mapping it was given; the
\* cv mapping and its sections are new dicts, nothing is stored in the argument
static_after_merge(static_sections, dynamic_sections) == static_sections

merge_sections(static_sections, dynamic_sections, bold_keywords, renderer_config, base_design) ==
    LET static_cv == GetOr(static_sections, "cv", EmptyDict)
        static_cv_sections == GetOr(static_cv, "sections", EmptyDict)
        cv_sections == AddStaticRest(InsertDynamic(EmptyDict, dynamic_sections, 1),
                                     static_cv_sections, 1)
        r0 == <<<<"cv", Put(static_cv, "sections", cv_sections)>>>>
        r1 == IF Len(bold_keywords) > 0 \/ renderer_config.some
              THEN Put(r0, "rendercv_settings", SettingsBlock(bold_keywords, renderer_config))
              ELSE r0
        r2 == IF base_design.some /\ Len(base_design.val) > 0
              THEN Put(r1, "design", base_design.val)
              ELSE IF renderer_config.some
                   THEN Put(r1, "design", ConfigDesign(renderer_config.val))
                   ELSE r1
    IN r2

----------------------------------------------------------------------------
(* Inputs of merge_sections.                                               *)

SectionKeyPool == {"summary", "skills", "experience", "education", "projects"}

StaticValue(k) == [src |-> "static", key |-> k]

DynamicValue(k) == [src |-> "dynamic", key |-> k]

StaticSectionDicts ==
    {[i \in 1..Len(q) |-> <<q[i], StaticValue(q[i])>>] :
        q \in SeqsNoRepeat(SectionKeyPool, MaxStaticSections)}

DynamicSectionDicts ==
    {[i \in 1..Len(q) |-> <<q[i], DynamicValue(q[i])>>] :
        q \in SeqsNoRepeat({DynamicKeys[i] : i \in 1..Len(DynamicKeys)}, Len(DynamicKeys))}

IdentityFields == <<<<"name", "Jane Doe">>, <<"email", "jane@x.com">>>>

StaticInputs ==
    {EmptyDict, <<<<"cv", IdentityFields>>>>}
    \cup {<<<<"cv", Append(IdentityFields, <<"sections", s>>)>>>> : s \in StaticSectionDicts}
    \cup {<<<<"cv", <<<<"sections", s>>>> \o IdentityFields>>>> : s \in StaticSectionDicts}

RendererConfig(theme, output_folder, design_overrides) ==
    [theme |-> theme, output_folder |-> output_folder, design_overrides |-> design_overrides]

RendererConfigs ==
    {None,
     Some(RendererConfig("engineeringresumes", <<"output">>, EmptyDict)),
     Some(RendererConfig("classic", <<"out2">>,
                         <<<<"font", "serif">>, <<"theme", "sb2nov">>>>))}

BaseDesigns == {None, Some(EmptyDict), Some(<<<<"theme", "moderncv">>>>)}

KeywordLists == {<<>>, <<"Python", "Go">>}

MergeInputs ==
    [static_sections : StaticInputs, dynamic_sections : DynamicSectionDicts,
     bold_keywords : KeywordLists, renderer_config : RendererConfigs,
     base_design : BaseDesigns]

NoMergeInput ==
    [static_sections |-> EmptyDict, dynamic_sections |-> EmptyDict,
     bold_keywords |-> <<>>, renderer_config |-> None, base_design |-> None]

MergeInit ==
    /\ m_phase = "input"
    /\ m_in \in MergeInputs
    /\ m_out = EmptyDict
    /\ m_static = m_in.static_sections
    /\ m_again = EmptyDict

MergeIdle ==
    /\ m_phase = "idle"
    /\ m_in = NoMergeInput
    /\ m_out = EmptyDict
    /\ m_static = EmptyDict
    /\ m_again = EmptyDict

\* one call of merge_sections on the chosen input
Merge ==
    /\ m_phase = "input"
    /\ m_phase' = "merged"
    /\ m_out' = merge_sections(m_in.static_sections, m_in.dynamic_sections,
                               m_in.bold_keywords, m_in.renderer_config, m_in.base_design)
    /\ m_static' = static_after_merge(m_static, m_in.dynamic_sections)
    /\ UNCHANGED <<m_in, m_again>>

\* a second call of merge_sections on the same arguments
MergeAgain ==
    /\ m_phase = "merged"
    /\ m_phase' = "repeated"
    /\ m_again' = merge_sections(m_in.static_sections, m_in.dynamic_sections,
                                 m_in.bold_keywords, m_in.renderer_config, m_in.base_design)
    /\ m_static' = static_after_merge(m_static, m_in.dynamic_sections)
    /\ UNCHANGED <<m_in, m_out>>

----------------------------------------------------------------------------
(* Claims about merge_sections.                                            *)

IsDynamicKey(k) == k \in {"summary", "skills", "experience"}

Rank(k) == CASE k = "summary" -> 1 [] k = "skills" -> 2 [] k = "experience" -> 3 [] OTHER -> 4

StaticSectionsOf(static_sections) ==
    GetOr(GetOr(static_sections, "cv", EmptyDict), "sections", EmptyDict)

MergedSections == Get(Get(m_out, "cv"), "sections")

StaticExtras(static_sections) ==
    SelectSeq(StaticSectionsOf(static_sections), LAMBDA kv : ~IsDynamicKey(kv[1]))

AllDynamicPresent(dynamic_sections) ==
    \A k \in {"summary", "skills", "experience"} : Has(dynamic_sections, k)

\* C4: when the dynamic sections hold summary, skills and experience, the merged
\* sections are summary, skills, experience (with the dynamic values) followed by
\* the static extras, each with its static value, in static order.
C4_SectionOrder ==
    (m_phase = "merged" /\ AllDynamicPresent(m_in.dynamic_sections)) =>
        MergedSections =
            <<<<"summary", Get(m_in.dynamic_sections, "summary")>>,
              <<"skills", Get(m_in.dynamic_sections, "skills")>>,
              <<"experience", Get(m_in.dynamic_sections, "experience")>>>>
            \o StaticExtras(m_in.static_sections)

C4_Witness ==
    /\ m_phase = "merged"
    /\ AllDynamicPresent(m_in.dynamic_sections)
    /\ Len(StaticExtras(m_in.static_sections)) >= 2
    /\ Len(StaticSectionsOf(m_in.static_sections)) > Len(StaticExtras(m_in.static_sections))
    /\ Keys(m_in.dynamic_sections) # <<"summary", "skills", "experience">>

\* C5 as stated: in every merged sections block, the keys among summary, skills,
\* experience come first and in that relative order.
C5_DynamicFirst_Original ==
    m_phase = "merged" =>
        \A i, j \in 1..Len(MergedSections) :
            (i < j /\ IsDynamicKey(MergedSections[j][1])) =>
                /\ IsDynamicKey(MergedSections[i][1])
                /\ Rank(MergedSections[i][1]) < Rank(MergedSections[j][1])

\* C5 amended: the keys among summary, skills, experience that the dynamic input
\* supplies come first, in that relative order, with the dynamic values; every
\* other key (one of the three that only the static input holds included) follows
\* in static order with its static value.
C5_DynamicSuppliedFirst ==
    m_phase = "merged" =>
        LET supplied == {k \in {"summary", "skills", "experience"} :
                            Has(m_in.dynamic_sections, k)}
            rest == SelectSeq(StaticSectionsOf(m_in.static_sections),
                              LAMBDA kv : kv[1] \notin supplied)
            n == Cardinality(supplied)
        IN /\ Len(MergedSections) = n + Len(rest)
           /\ \A i \in 1..n :
                /\ MergedSections[i][1] \in supplied
                /\ MergedSections[i][2] = Get(m_in.dynamic_sections, MergedSections[i][1])
                /\ \A j \in 1..n :
                     i < j => Rank(MergedSections[i][1]) < Rank(MergedSections[j][1])
           /\ \A i \in 1..Len(rest) : MergedSections[n + i] = rest[i]

C5_Witness ==
    /\ m_phase = "merged"
    /\ ~Has(m_in.dynamic_sections, "summary")
    /\ Has(m_in.dynamic_sections, "skills")
    /\ Has(m_in.dynamic_sections, "experience")
    /\ \E i \in 2..Len(StaticSectionsOf(m_in.static_sections)) :
          /\ StaticSectionsOf(m_in.static_sections)[i][1] = "summary"
          /\ ~IsDynamicKey(StaticSectionsOf(m_in.static_sections)[i - 1][1])

Merged == m_phase \in {"merged", "repeated"}

C17_DesignPrecedence ==
    Merged =>
        IF m_in.base_design.some
        THEN /\ Has(m_out, "design")
             /\ Get(m_out, "design") = m_in.base_design.val
        ELSE IF m_in.renderer_config.some
             THEN /\ Has(m_out, "design")
                  /\ Get(m_out, "design") =
                        Update(<<<<"theme", m_in.renderer_config.val.theme>>>>,
                               m_in.renderer_config.val.design_overrides, 1)
             ELSE ~Has(m_out, "design")

\* C18: the merged document has a settings block exactly when the keyword list
\* is non-empty or a renderer config is given; non-empty keywords are its
\* bold_keywords, in the given order, and a renderer config's output folder is
\* under its render_command.
C18_SettingsBlock ==
    Merged =>
        /\ Has(m_out, "rendercv_settings") <=>
              (Len(m_in.bold_keywords) > 0 \/ m_in.renderer_config.some)
        /\ Len(m_in.bold_keywords) > 0 =>
              /\ Has(Get(m_out, "rendercv_settings"), "bold_keywords")
              /\ Get(Get(m_out, "rendercv_settings"), "bold_keywords") = m_in.bold_keywords
        /\ m_in.renderer_config.some =>
              /\ Has(Get(m_out, "rendercv_settings"), "render_command")
              /\ Get(Get(Get(m_out, "rendercv_settings"), "render_command"),
                     "output_folder_name") = m_in.renderer_config.val.output_folder

C18_Witness ==
    /\ m_phase = "merged"
    /\ m_in.bold_keywords = <<"Python", "Go">>
    /\ m_in.renderer_config = Some(RendererConfig("engineeringresumes", <<"output">>, EmptyDict))
    /\ Get(m_out, "rendercv_settings") =
          <<<<"bold_keywords", <<"Python", "Go">>>>,
            <<"render_command", <<<<"output_folder_name", <<"output">>>>>>>>>>

\* C27 as stated: merged without a base design and with a renderer config, the
\* theme of the design block is the renderer config's theme.
C27_ThemeIsConfigTheme ==
    (Merged /\ m_in.base_design = None /\ m_in.renderer_config.some) =>
        /\ Has(m_out, "design")
        /\ Get(Get(m_out, "design"), "theme") = m_in.renderer_config.val.theme

\* C27: merged without a base design and with a renderer config, the theme of
\* the design block is the theme of the override mapping when it has one, and
\* the renderer config's theme otherwise.
C27_ThemeUnlessOverridden ==
    (Merged /\ m_in.base_design = None /\ m_in.renderer_config.some) =>
        /\ Has(m_out, "design")
        /\ Has(Get(m_out, "design"), "theme")
        /\ Get(Get(m_out, "design"), "theme") =
              GetOr(m_in.renderer_config.val.design_overrides, "theme",
                    m_in.renderer_config.val.theme)

C27_Witness ==
    /\ m_phase = "merged"
    /\ m_in.base_design = None
    /\ m_in.renderer_config =
          Some(RendererConfig("classic", <<"out2">>,
                              <<<<"font", "serif">>, <<"theme", "sb2nov">>>>))
    /\ Get(m_out, "design") = <<<<"theme", "sb2nov">>, <<"font", "serif">>>>

----------------------------------------------------------------------------
(* The completion port and ResumeService._llm_call_with_retry.             *)
(*                                                                         *)
(* A completion call either raises, or returns text. What the text is      *)
(* matters to the loop only through yaml.safe_load of the cleaned text:    *)
(* it raises yaml.YAMLError ("malformed"), yields a value that is not a    *)
(* dict ("scalar"), or yields a dict ("mapping", with its items).          *)

List(q) == [t |-> "list", v |-> q]

Str(x) == [t |-> "str", v |-> <<x>>]

YamlNull == "null"

TailoredSkills == <<[label |-> "Tools", details |-> "Docker"]>>

ResponseMappings ==
    {EmptyDict,
     <<<<"summary", List(<<"PYTHON">>)>>>>,
     <<<<"summary", List(<<>>)>>>>,
     <<<<"summary", Str("PYTHON")>>>>,
     <<<<"highlights", <<"go", "Led">>>>>>,
     <<<<"skills", TailoredSkills>>>>,
     <<<<"company", "Acme">>, <<"role", "Dev">>>>,
     <<<<"role", YamlNull>>, <<"company", YamlNull>>>>,
     <<<<"company", "Acme">>>>}

PortExceptions == {"RuntimeError", "ValueError", "AttributeError"}

Response(kind, exc, data) == [kind |-> kind, exc |-> exc, data |-> data]

Responses ==
    {Response("raise", e, EmptyDict) : e \in PortExceptions}
    \cup {Response("malformed", "", EmptyDict), Response("scalar", "", EmptyDict)}
    \cup {Response("mapping", "", d) : d \in ResponseMappings}

\* _validate_yaml_structure(data, expected_keys), data given by the response
validate_yaml_structure(resp, keys) ==
    /\ resp.kind = "mapping"
    /\ \A i \in 1..Len(keys) : Has(resp.data, keys[i])

\* the exception classes the loop's except clause names (line 160)
CaughtExceptions == {"YAMLError", "AttributeError"}

\* the exception the try body raises on this response, "" when it raises none
RaisedInTry(resp) ==
    CASE resp.kind = "raise" -> resp.exc
      [] resp.kind = "malformed" -> "YAMLError"
      [] OTHER -> ""

Outcome(act, ret, exc) == [act |-> act, ret |-> ret, exc |-> exc]

\* one retry fewer
RetryOrNone_one_fewer(att, maxr) ==
    IF att + 1 < maxr THEN Outcome("continue", None, "") ELSE Outcome("return", None, "")

\* one retry more
RetryOrNone_one_more(att, maxr) ==
    IF att < maxr + 1 THEN Outcome("continue", None, "") ELSE Outcome("return", None, "")

\* lines 153-156 and 167-171: retry while attempts are left, else return None
RetryOrNone(att, maxr) ==
    IF att < maxr THEN Outcome("continue", None, "") ELSE Outcome("return", None, "")

\* one iteration of the for loop (lines 142-171) on the port's response
llm_call_iteration(resp, keys, att, maxr) ==
    LET exc == RaisedInTry(resp)
    IN IF exc # ""
       THEN IF exc \in CaughtExceptions
            THEN RetryOrNone(att, maxr)
            ELSE Outcome("raise", None, exc)
       ELSE IF ~validate_yaml_structure(resp, keys)
            THEN RetryOrNone(att, maxr)
            ELSE Outcome("return", Some(resp.data), "")

ExpectedKeyLists ==
    {<<"summary">>, <<"highlights">>, <<"skills">>, <<"company", "role">>}

RetryInit ==
    /\ r_phase = "loop"
    /\ max_retries \in -1..MaxRetriesBound
    /\ expected_keys \in ExpectedKeyLists
    /\ attempt = 0
    /\ r_calls = 0
    /\ r_log = <<>>
    /\ r_ret = None

RetryIdle ==
    /\ r_phase = "idle"
    /\ max_retries = 0
    /\ expected_keys = <<>>
    /\ attempt = 0
    /\ r_calls = 0
    /\ r_log = <<>>
    /\ r_ret = None

\* what a completion call did, as far as the loop can tell
LogEntry(resp, keys) ==
    CASE resp.kind = "raise" -> resp.exc
      [] resp.kind = "malformed" -> "parse_failure"
      [] validate_yaml_structure(resp, keys) -> "valid"
      [] OTHER -> "validation_failure"

\* one iteration of the loop: the completion call and what follows it
RetryIteration ==
    /\ r_phase = "loop"
    /\ attempt < max_retries + 1
    /\ \E resp \in Responses :
         LET out == llm_call_iteration(resp, expected_keys, attempt, max_retries)
         IN /\ r_calls' = r_calls + 1
            /\ r_log' = Append(r_log, LogEntry(resp, expected_keys))
            /\ r_phase' = CASE out.act = "continue" -> "loop"
                             [] out.act = "return" -> "returned"
                             [] OTHER -> "raised"
            /\ attempt' = IF out.act = "continue" THEN attempt + 1 ELSE attempt
            /\ r_ret' = out.ret
    /\ UNCHANGED <<max_retries, expected_keys>>

\* line 173: the loop ran out of iterations
RetryLoopExit ==
    /\ r_phase = "loop"
    /\ ~(attempt < max_retries + 1)
    /\ r_phase' = "returned"
    /\ r_ret' = None
    /\ UNCHANGED <<max_retries, expected_keys, attempt, r_calls, r_log>>

\* a failure of parsing or of structural validation
IsModelOutputFailure(e) == e \in {"parse_failure", "validation_failure"}

IsPortError(e) == e \in PortExceptions

\* C1: with max_retries >= 0 and every response failing parsing or structural
\* validation, the loop ends only after exactly max_retries + 1 completion calls,
\* and it ends returning None.
C1_RetryBound ==
    (/\ max_retries >= 0
     /\ \A i \in 1..Len(r_log) : IsModelOutputFailure(r_log[i])) =>
        /\ r_calls = Len(r_log)
        /\ r_calls <= max_retries + 1
        /\ r_phase # "raised"
        /\ r_phase = "returned" => (r_calls = max_retries + 1 /\ r_ret = None)

C1_Witness ==
    /\ max_retries = 2
    /\ r_phase = "returned"
    /\ r_calls = 3
    /\ r_ret = None
    /\ \E i, j \in 1..Len(r_log) : r_log[i] = "parse_failure" /\ r_log[j] = "validation_failure"

\* C2 as stated: a completion call that raised is the last one of the loop, the
\* loop does not return None after it, and the error reaches the caller.
C2_PortErrorNotRetried ==
    \A i \in 1..Len(r_log) :
        IsPortError(r_log[i]) => (i = Len(r_log) /\ r_phase = "raised")

\* C21: a call that returns a mapping returns it from a completion call whose
\* response passed validation, which is its last completion call; every
\* completion call before it failed parsing or structural validation, and each
\* of them took one iteration of the loop.
C21_FirstValidReturned ==
    (r_phase = "returned" /\ r_ret.some /\ r_log # <<>>) =>
        /\ Len(r_log) = r_calls
        /\ r_log[Len(r_log)] = "valid"
        /\ \A i \in 1..Len(expected_keys) : Has(r_ret.val, expected_keys[i])
        /\ \A i \in 1..(Len(r_log) - 1) : IsModelOutputFailure(r_log[i])
        /\ attempt = Len(r_log) - 1

----------------------------------------------------------------------------
(* ResumeService._extract_technical_terms                                  *)
(*                                                                         *)
(* The serialized document is a sequence of words; a word matches a        *)
(* pattern group when its lowercase form is one of the group's terms       *)
(* (re.IGNORECASE between word boundaries).                                *)

\* str.lower on the words of the model that hold an uppercase letter
CaseTable ==
    {<<"Python", "python">>, <<"PYTHON", "python">>, <<"Go", "go">>, <<"GO", "go">>,
     <<"Docker", "docker">>, <<"DOCKER", "docker">>, <<"Redis", "redis">>,
     <<"React", "react">>, <<"Git", "git">>, <<"API", "api">>, <<"Api", "api">>,
     <<"Led", "led">>, <<"Built", "built">>, <<"Acme", "acme">>, <<"Dev", "dev">>,
     <<"Jane", "jane">>, <<"Languages", "languages">>, <<"Tools", "tools">>,
     <<"Globex", "globex">>, <<"Initech", "initech">>, <<"Umbrella", "umbrella">>,
     <<"MIT", "mit">>}

Lower(w) ==
    IF \E p \in CaseTable : p[1] = w
    THEN (CHOOSE p \in CaseTable : p[1] = w)[2]
    ELSE w

\* technical_patterns (lines 65-84): the lowercase terms of each group, in order
TechnicalPatterns ==
    <<{"python", "go"}, {"react"}, {"redis"}, {"docker"}, {"git"}, {"api"}>>

\* the order of the lowercase strings the model sorts
AlphaOrder ==
    <<"api", "docker", "git", "go", "python", "react", "redis">>

AlphaRank(t) == CHOOSE i \in 1..Len(AlphaOrder) : AlphaOrder[i] = t

\* found_terms[term_lower] = term on every match
Record_last_seen(found_terms, term) == Put(found_terms, Lower(term), term)

\* lines 92-96: the first casing seen of a lowercase term is kept
Record(found_terms, term) ==
    IF ~Has(found_terms, Lower(term))
    THEN Put(found_terms, Lower(term), term)
    ELSE found_terms

\* line 90: the matches of re.finditer(pattern, resume_text, re.IGNORECASE), left to right
Matches(pattern, resume_text) == SelectSeq(resume_text, LAMBDA w : Lower(w) \in pattern)

\* lines 91-96: found_terms after the first i matches of one pattern
RECURSIVE ScanPattern(_, _, _)
ScanPattern(found_terms, matches, i) ==
    IF i = 0 THEN found_terms
    ELSE Record(ScanPattern(found_terms, matches, i - 1), matches[i])

\* lines 89-96: found_terms after the first g patterns, one after the other
RECURSIVE ScanPatterns(_, _)
ScanPatterns(resume_text, g) ==
    IF g = 0 THEN EmptyDict
    ELSE LET matches == Matches(TechnicalPatterns[g], resume_text)
         IN ScanPattern(ScanPatterns(resume_text, g - 1), matches, Len(matches))

\* the values left in the order found_terms holds them
InsertSorted_unsorted(sorted, w) == Append(sorted, w)

\* insertion of w into a list sorted by lowercase form, after its equals (stable)
RECURSIVE InsertSorted(_, _)
InsertSorted(sorted, w) ==
    IF sorted = <<>> THEN <<w>>
    ELSE IF AlphaRank(Lower(w)) < AlphaRank(Lower(Head(sorted)))
         THEN <<w>> \o sorted
         ELSE <<Head(sorted)>> \o InsertSorted(Tail(sorted), w)

\* sorted(list(found_terms.values()), key=str.lower)
RECURSIVE SortedByLower(_, _)
SortedByLower(values, i) ==
    IF i = 0 THEN <<>>
    ELSE InsertSorted(SortedByLower(values, i - 1), values[i])

\* the values listed in an order that differs from one call to the next
extract_technical_terms_call_order(resume_text) ==
    LET found_terms == ScanPatterns(resume_text, Len(TechnicalPatterns))
        values == [i \in 1..Len(found_terms) |-> found_terms[i][2]]
        sorted == SortedByLower(values, Len(values))
    IN IF k_phase = "extracted"
       THEN [i \in 1..Len(sorted) |-> sorted[Len(sorted) + 1 - i]]
       ELSE sorted

\* _extract_technical_terms on the serialized text (lines 88-99)
extract_technical_terms(resume_text) ==
    LET found_terms == ScanPatterns(resume_text, Len(TechnicalPatterns))
        values == [i \in 1..Len(found_terms) |-> found_terms[i][2]]
    IN SortedByLower(values, Len(values))

TextWords == {"python", "Python", "PYTHON", "go", "Go", "docker", "Docker", "led"}

RECURSIVE SeqsUpTo(_, _)
SeqsUpTo(S, n) ==
    IF n = 0 THEN {<<>>}
    ELSE LET shorter == SeqsUpTo(S, n - 1)
         IN shorter \cup {Append(q, x) : <<q, x>> \in {y \in shorter \X S : Len(y[1]) = n - 1}}

KeywordInit ==
    /\ k_phase = "input"
    /\ k_text \in SeqsUpTo(TextWords, MaxTextLen)
    /\ k_out = <<>>
    /\ k_again = <<>>

KeywordIdle ==
    /\ k_phase = "idle"
    /\ k_text = <<>>
    /\ k_out = <<>>
    /\ k_again = <<>>

\* one call of _extract_technical_terms on the chosen text
ExtractTerms ==
    /\ k_phase = "input"
    /\ k_phase' = "extracted"
    /\ k_out' = extract_technical_terms(k_text)
    /\ UNCHANGED <<k_text, k_again>>

\* a second call of _extract_technical_terms on the same text
ExtractTermsAgain ==
    /\ k_phase = "extracted"
    /\ k_phase' = "repeated"
    /\ k_again' = extract_technical_terms(k_text)
    /\ UNCHANGED <<k_text, k_out>>

C12_StrictlyAscending ==
    k_phase \in {"extracted", "repeated"} =>
        \A i, j \in 1..Len(k_out) :
            i < j => AlphaRank(Lower(k_out[i])) < AlphaRank(Lower(k_out[j]))

C12_Witness ==
    /\ k_phase = "extracted"
    /\ Len(k_text) >= 3
    /\ k_text[1] = "python"
    /\ k_text[2] = "Go"
    /\ k_text[3] = "docker"
    /\ k_out = <<"docker", "Go", "python">>

IsCatalogTerm(t) == \E g \in 1..Len(TechnicalPatterns) : t \in TechnicalPatterns[g]

\* C10: the extractor's output has no two entries equal case-insensitively, and
\* a catalog term that occurs in the text has exactly one entry, which is the
\* word of the term's first occurrence in the text.
C10_FirstSeenCasing ==
    k_phase = "extracted" =>
        /\ \A i, j \in 1..Len(k_out) : Lower(k_out[i]) = Lower(k_out[j]) => i = j
        /\ \A p \in 1..Len(k_text) :
             (/\ IsCatalogTerm(Lower(k_text[p]))
              /\ \A q \in 1..(p - 1) : Lower(k_text[q]) # Lower(k_text[p])) =>
                 \E i \in 1..Len(k_out) :
                    /\ k_out[i] = k_text[p]
                    /\ \A j \in 1..Len(k_out) :
                         Lower(k_out[j]) = Lower(k_text[p]) => j = i

C10_Witness ==
    /\ k_phase = "extracted"
    /\ \E p, q \in 1..Len(k_text) :
          /\ p < q
          /\ k_text[p] = "python"
          /\ k_text[q] = "Python"
          /\ \A x \in 1..(p - 1) : Lower(k_text[x]) # "python"
    /\ \E i \in 1..Len(k_out) : k_out[i] = "python"
    /\ \A i \in 1..Len(k_out) : k_out[i] # "Python"

----------------------------------------------------------------------------
(* ResumeService._clean_llm_output                                         *)
(*                                                                         *)
(* A response is a sequence of tokens: three backticks followed by         *)
(* "yaml" and a newline, three backticks followed by a newline, three      *)
(* backticks followed by neither, whitespace, and words of YAML text.      *)

\* the fence is written <fence> and the newline <nl> in the tokens
FenceYaml == "<fence>yaml<nl>"

FenceNewline == "<fence><nl>"

Backticks == "<fence>"

Whitespace == " "

ResponseTokens == {FenceYaml, FenceNewline, Backticks, Whitespace, "a: 1", "b: 2"}

\* the token holds the three backticks
HasBackticks(tok) == tok \in {FenceYaml, FenceNewline, Backticks, "<fence>yaml"}

\* the opening of the pattern, fence (yaml)? newline, matches at the token
OpensFence(tok) == tok \in {FenceYaml, FenceNewline}

\* where the text holds the three backticks, and where the opening matches
FencePositions(content) == {i \in 1..Len(content) : HasBackticks(content[i])}

OpenPositions(content) == {i \in 1..Len(content) : OpensFence(content[i])}

Min(S) == CHOOSE x \in S : \A y \in S : x <= y

Max(S) == CHOOSE x \in S : \A y \in S : x >= y

\* str.strip on the last token of a text: the newline of a fence is whitespace
StripLast(tok) ==
    CASE tok = FenceNewline -> Backticks
      [] tok = FenceYaml -> "<fence>yaml"
      [] OTHER -> tok

\* str.strip: leading and trailing whitespace is dropped
RECURSIVE Strip(_)
Strip(content) ==
    IF content = <<>> THEN <<>>
    ELSE IF Head(content) = Whitespace THEN Strip(Tail(content))
    ELSE IF content[Len(content)] = Whitespace
         THEN Strip(SubSeq(content, 1, Len(content) - 1))
         ELSE SubSeq(content, 1, Len(content) - 1) \o <<StripLast(content[Len(content)])>>

\* lines 48-52: re.search takes the leftmost opening that has backticks after
\* it, and the greedy (.*) under DOTALL runs to the last backticks of the text
clean_llm_output(content) ==
    LET opens == OpenPositions(content)
        first == Min(opens)
        closes == {j \in FencePositions(content) : j > first}
    IN IF opens # {} /\ closes # {}
       THEN Strip(SubSeq(content, first + 1, Max(closes) - 1))
       ELSE Strip(content)

CleanInit ==
    /\ c_phase = "input"
    /\ c_content \in SeqsUpTo(ResponseTokens, MaxResponseLen)
    /\ c_cleaned = <<>>

CleanIdle ==
    /\ c_phase = "idle"
    /\ c_content = <<>>
    /\ c_cleaned = <<>>

\* one call of _clean_llm_output on the chosen response
Clean ==
    /\ c_phase = "input"
    /\ c_phase' = "cleaned"
    /\ c_cleaned' = clean_llm_output(c_content)
    /\ UNCHANGED c_content

\* C16: of a response whose first backticks open a fenced block, the cleaned
\* text is what stands between that opening and the next backticks, trimmed;
\* a response without backticks is returned trimmed.
C16_FirstBlockOnly ==
    c_phase = "cleaned" =>
        LET fences == FencePositions(c_content)
            first == Min(fences)
            later == {j \in fences : j > first}
        IN IF fences = {}
           THEN c_cleaned = Strip(c_content)
           ELSE (OpensFence(c_content[first]) /\ later # {}) =>
                   c_cleaned = Strip(SubSeq(c_content, first + 1, Min(later) - 1))

----------------------------------------------------------------------------
(* ExperienceEntry.validate_highlights                                     *)
(*                                                                         *)
(* A highlight is a string, modelled as the sequence of its characters.    *)

Space == " "

Characters == {Space, "a"}

\* str.strip of a highlight
RECURSIVE StripChars(_)
StripChars(h) ==
    IF h = <<>> THEN <<>>
    ELSE IF Head(h) = Space THEN StripChars(Tail(h))
    ELSE IF h[Len(h)] = Space THEN StripChars(SubSeq(h, 1, Len(h) - 1))
    ELSE h

\* every highlight stripped, none dropped
validate_highlights_keep_empty(v) == [i \in 1..Len(v) |-> StripChars(v[i])]

\* line 19: [h.strip() for h in v if h.strip()]
RECURSIVE validate_highlights(_)
validate_highlights(v) ==
    IF v = <<>> THEN <<>>
    ELSE IF StripChars(Head(v)) # <<>>
         THEN <<StripChars(Head(v))>> \o validate_highlights(Tail(v))
         ELSE validate_highlights(Tail(v))

Highlights == SeqsUpTo(Characters, MaxHighlightLen)

EntryInit ==
    /\ e_phase = "input"
    /\ e_given \in SeqsUpTo(Highlights, MaxHighlights)
    /\ e_highlights = <<>>

EntryIdle ==
    /\ e_phase = "idle"
    /\ e_given = <<>>
    /\ e_highlights = <<>>

\* ExperienceEntry(highlights=...): the validator's result is what is stored
ConstructEntry ==
    /\ e_phase = "input"
    /\ e_phase' = "constructed"
    /\ e_highlights' = validate_highlights(e_given)
    /\ UNCHANGED e_given

\* the highlight holds a character that is not whitespace
NonBlank(h) == \E i \in 1..Len(h) : h[i] # Space

\* the highlight between its first and its last character that is not whitespace
Trimmed(h) ==
    LET solid == {i \in 1..Len(h) : h[i] # Space}
    IN SubSeq(h, Min(solid), Max(solid))

\* the positions of the given highlights that are not blank
Kept == {i \in 1..Len(e_given) : NonBlank(e_given[i])}

\* the k-th smallest element of a set of numbers
Nth(S, k) == CHOOSE x \in S : Cardinality({y \in S : y <= x}) = k

\* C19: the stored highlights are the given highlights that are not blank, each
\* trimmed, in their given order; none stored is empty or begins or ends with
\* whitespace.
C19_HighlightsTrimmed ==
    e_phase = "constructed" =>
        /\ Len(e_highlights) = Cardinality(Kept)
        /\ \A k \in 1..Len(e_highlights) :
              /\ e_highlights[k] = Trimmed(e_given[Nth(Kept, k)])
              /\ e_highlights[k] # <<>>
              /\ e_highlights[k][1] # Space
              /\ e_highlights[k][Len(e_highlights[k])] # Space

C19_Witness ==
    /\ e_phase = "constructed"
    /\ e_given = <<<<Space, "a", Space>>, <<Space, Space>>>>
    /\ e_highlights = <<<<"a">>>>

----------------------------------------------------------------------------
(* GeminiLLM.chat and GeminiLLM._prepare_chat                              *)

Roles == {"system", "user", "assistant"}

Contents == {"", "Hello", "Be helpful."}

LLMMessage(role, content) == [role |-> role, content |-> content]

Messages == {LLMMessage(r, c) : r \in Roles, c \in Contents}

\* every role kept as it is
history_role_unmapped(role) == role

\* line 94: 'assistant' is 'model' to the API
history_role(role) == IF role = "assistant" THEN "model" ELSE role

\* lines 82-101 of _prepare_chat
prepare_chat(messages) ==
    LET leading == Len(messages) > 0 /\ messages[1].role = "system"
        system_prompt == IF leading THEN messages[1].content ELSE ""
        rest == IF leading THEN Tail(messages) ELSE messages
        history == IF Len(rest) > 1
                   THEN [i \in 1..(Len(rest) - 1) |->
                           [role |-> history_role(rest[i].role), parts |-> <<rest[i].content>>]]
                   ELSE <<>>
        last_message == IF Len(rest) > 0 THEN rest[Len(rest)].content ELSE ""
    IN [system_prompt |-> system_prompt, history |-> history, last_message |-> last_message]

NoRequest == [system_instruction |-> None, history |-> <<>>, sent |-> None]

GeminiInit ==
    /\ g_phase = "input"
    /\ g_messages \in SeqsUpTo(Messages, MaxMessages)
    /\ g_request = NoRequest

GeminiIdle ==
    /\ g_phase = "idle"
    /\ g_messages = <<>>
    /\ g_request = NoRequest

\* lines 23-44 of chat: ValueError on an empty last message, otherwise the model
\* is created, with a system instruction when there is one, and the last
\* message is sent to a chat started on the history
Chat ==
    /\ g_phase = "input"
    /\ LET prepared == prepare_chat(g_messages)
       IN IF prepared.last_message = ""
          THEN /\ g_phase' = "raised"
               /\ UNCHANGED g_request
          ELSE /\ g_phase' = "sent"
               /\ g_request' =
                     [system_instruction |->
                          IF prepared.system_prompt # ""
                          THEN Some(prepared.system_prompt) ELSE None,
                      history |-> prepared.history,
                      sent |-> Some(prepared.last_message)]
    /\ UNCHANGED g_messages

\* the messages left once a leading system message is taken off
Remaining ==
    IF Len(g_messages) > 0 /\ g_messages[1].role = "system"
    THEN Tail(g_messages) ELSE g_messages

LeadingSystem == Len(g_messages) > 0 /\ g_messages[1].role = "system"

\* the history the API is to get: all of `rest` but its last message
HistoryOf(rest) ==
    [i \in 1..(Len(rest) - 1) |->
        [role |-> IF rest[i].role = "assistant" THEN "model" ELSE rest[i].role,
         parts |-> <<rest[i].content>>]]

\* C20 as stated: for a non-empty message list chat() raises when the content of
\* the last message is empty, and otherwise sends that content on a history of
\* the other messages after a leading system message, which is the system
\* instruction.
C20_PrepareChat_Original ==
    (g_phase # "input" /\ g_phase # "idle" /\ g_messages # <<>>) =>
        IF g_messages[Len(g_messages)].content = ""
        THEN g_phase = "raised"
        ELSE /\ g_phase = "sent"
             /\ g_request.sent = Some(g_messages[Len(g_messages)].content)
             /\ g_request.history = HistoryOf(Remaining)
             /\ (LeadingSystem /\ g_messages[1].content # "") =>
                   g_request.system_instruction = Some(g_messages[1].content)

\* C20: chat() raises without a request when no message remains after a leading
\* system message or the last remaining message is empty; otherwise it sends
\* the last remaining message on a history of the other remaining messages, in
\* order and with 'assistant' as 'model', and the system instruction is the
\* non-empty content of the leading system message, if any.
C20_PrepareChat ==
    (g_phase # "input" /\ g_phase # "idle") =>
        IF Remaining = <<>> \/ Remaining[Len(Remaining)].content = ""
        THEN /\ g_phase = "raised"
             /\ g_request = NoRequest
        ELSE /\ g_phase = "sent"
             /\ g_request.sent = Some(Remaining[Len(Remaining)].content)
             /\ g_request.history = HistoryOf(Remaining)
             /\ g_request.system_instruction =
                   IF LeadingSystem /\ g_messages[1].content # ""
                   THEN Some(g_messages[1].content) ELSE None

C20_Witness ==
    /\ g_phase = "sent"
    /\ g_messages = <<LLMMessage("system", "Be helpful."),
                      LLMMessage("assistant", "Be helpful."),
                      LLMMessage("user", "Hello")>>
    /\ g_request = [system_instruction |-> Some("Be helpful."),
                    history |-> <<[role |-> "model", parts |-> <<"Be helpful.">>]>>,
                    sent |-> Some("Hello")]

----------------------------------------------------------------------------
(* yaml.dump(resume_data, default_flow_style=False) of line 86, as words.  *)
(* The dump sorts the keys of every mapping; a string is one word.         *)

\* the order of the keys the model's documents hold
KeyOrder ==
    <<"bold_keywords", "company", "cv", "design", "details", "education", "email",
      "experience", "font", "highlights", "label", "name", "output_folder_name",
      "position", "projects", "render_command", "rendercv_settings", "sections",
      "skills", "summary", "theme">>

KeyRank(k) == CHOOSE i \in 1..Len(KeyOrder) : KeyOrder[i] = k

RECURSIVE InsertByKey(_, _)
InsertByKey(sorted, kv) ==
    IF sorted = <<>> THEN <<kv>>
    ELSE IF KeyRank(kv[1]) < KeyRank(Head(sorted)[1])
         THEN <<kv>> \o sorted
         ELSE <<Head(sorted)>> \o InsertByKey(Tail(sorted), kv)

\* the items of a dict in the order of their keys (sort_keys=True)
RECURSIVE SortDict(_, _)
SortDict(d, i) ==
    IF i = 0 THEN <<>> ELSE InsertByKey(SortDict(d, i - 1), d[i])

RECURSIVE FlattenTo(_, _)
FlattenTo(qs, n) == IF n = 0 THEN <<>> ELSE FlattenTo(qs, n - 1) \o qs[n]

Flatten(qs) == FlattenTo(qs, Len(qs))

DumpEntry(e) ==
    <<"company", e.company, "highlights">> \o e.highlights \o <<"position", e.position>>

DumpSkill(sk) == <<"details", sk.details, "label", sk.label>>

DumpSection(kv) ==
    <<kv[1]>> \o
    (CASE kv[1] = "experience" -> Flatten([i \in 1..Len(kv[2]) |-> DumpEntry(kv[2][i])])
       [] kv[1] = "skills" -> Flatten([i \in 1..Len(kv[2]) |-> DumpSkill(kv[2][i])])
       [] OTHER -> kv[2])

DumpSections(sections) ==
    LET items == SortDict(sections, Len(sections))
    IN Flatten([i \in 1..Len(items) |-> DumpSection(items[i])])

DumpCv(cv) ==
    LET items == SortDict(cv, Len(cv))
    IN Flatten([i \in 1..Len(items) |->
                  IF items[i][1] = "sections"
                  THEN <<"sections">> \o DumpSections(items[i][2])
                  ELSE <<items[i][1], items[i][2]>>])

DumpDesign(design) ==
    LET items == SortDict(design, Len(design))
    IN Flatten([i \in 1..Len(items) |-> <<items[i][1], items[i][2]>>])

DumpSettings(settings) ==
    LET items == SortDict(settings, Len(settings))
    IN Flatten([i \in 1..Len(items) |->
                  IF items[i][1] = "render_command"
                  THEN <<"render_command", "output_folder_name">>
                       \o Get(items[i][2], "output_folder_name")
                  ELSE <<items[i][1]>> \o items[i][2]])

\* the words of the dumped document
DumpWords(resume_data) ==
    LET items == SortDict(resume_data, Len(resume_data))
    IN Flatten([i \in 1..Len(items) |->
                  <<items[i][1]>> \o
                  (CASE items[i][1] = "cv" -> DumpCv(items[i][2])
                     [] items[i][1] = "design" -> DumpDesign(items[i][2])
                     [] OTHER -> DumpSettings(items[i][2]))])

----------------------------------------------------------------------------
(* TemplateManager: loading the documents.                                 *)

Loaded(raised, val) == [raised |-> raised, val |-> val]

\* lines 39-45: a missing static sections file is an empty mapping
load_static_sections(file) ==
    IF file.some THEN file.val ELSE EmptyDict

\* a missing base resume read as an empty mapping
load_base_resume_lenient(file) ==
    IF file.some THEN Loaded(FALSE, file.val) ELSE Loaded(FALSE, EmptyDict)

\* lines 59-63: a missing base resume raises FileNotFoundError
load_base_resume(file) ==
    IF file.some THEN Loaded(FALSE, file.val) ELSE Loaded(TRUE, EmptyDict)

\* lines 77-94
extract_dynamic_sections(resume_data) ==
    LET sections == GetOr(GetOr(resume_data, "cv", EmptyDict), "sections", EmptyDict)
        d1 == IF Has(sections, "experience")
              THEN Put(EmptyDict, "experience", Get(sections, "experience")) ELSE EmptyDict
        d2 == IF Has(sections, "skills")
              THEN Put(d1, "skills", Get(sections, "skills")) ELSE d1
        d3 == IF Has(sections, "summary")
              THEN Put(d2, "summary", Get(sections, "summary")) ELSE d2
    IN d3

----------------------------------------------------------------------------
(* ResumeService: the callers of _llm_call_with_retry.                     *)

\* max_retries: int = 2
DefaultMaxRetries == 2

\* "if data:" on what _llm_call_with_retry returned
Truthy(ret) == ret.some /\ Len(ret.val) > 0

\* on failure a mapping with both fields null
extract_jd_details_nulls(ret) ==
    IF Truthy(ret)
    THEN <<<<"company", GetOr(ret.val, "company", YamlNull)>>,
           <<"role", GetOr(ret.val, "role", YamlNull)>>>>
    ELSE <<<<"company", YamlNull>>, <<"role", YamlNull>>>>

\* lines 293-300 of extract_jd_details
extract_jd_details(ret) ==
    IF Truthy(ret)
    THEN <<<<"company", GetOr(ret.val, "company", YamlNull)>>,
           <<"role", GetOr(ret.val, "role", YamlNull)>>>>
    ELSE EmptyDict

\* extraction also when the details given are an empty mapping
needs_extraction_falsy(details) ==
    IF details.some THEN details.val = EmptyDict ELSE TRUE

\* line 423 of generate_tailored_resume: if job_details is None
needs_extraction(details) == ~details.some

\* a step of the job: the call or the stage, and the experience entry it is on
Step(step, i) == [step |-> step, entry |-> i]

\* _tailor_experience begun on the last entry
after_summary_last_first(n) ==
    IF n > 0 THEN Step("experience", n) ELSE Step("skills", 0)

\* lines 436-444 of generate_tailored_resume and 329-330 of _tailor_experience:
\* after the summary the loop over the entries starts with the first one; with
\* no entries _tailor_skills is next
after_summary(n) ==
    IF n > 0 THEN Step("experience", 1) ELSE Step("skills", 0)

\* lines 329-330 and 342 of _tailor_experience, 445-448 of
\* generate_tailored_resume: the next entry, and _tailor_skills after the last
after_entry(i, n) ==
    IF i < n THEN Step("experience", i + 1) ELSE Step("skills", 0)

\* the highlights stored on the entry of the input list
entry_after_tailoring_in_place(current_entry, ret) ==
    IF Truthy(ret)
    THEN [current_entry EXCEPT !.highlights = GetOr(ret.val, "highlights", @)]
    ELSE current_entry

\* lines 335-337 of _tailor_experience: the highlights are stored on
\* entry.copy(), the entry of the input list is left as it was
entry_after_tailoring(current_entry, ret) == current_entry

\* lines 312-319 of _tailor_summary
tailor_summary(ret, current_summary) ==
    IF Truthy(ret)
    THEN LET summary_list == GetOr(ret.val, "summary", List(<<current_summary>>))
         IN IF summary_list.t = "list" /\ Len(summary_list.v) > 0
            THEN summary_list.v[1]
            ELSE current_summary
    ELSE current_summary

\* a failed entry left out of the result
tailor_experience_entry_drop(tailored, current_entry, ret) ==
    IF Truthy(ret)
    THEN Append(tailored,
                [current_entry EXCEPT
                    !.highlights = GetOr(ret.val, "highlights", current_entry.highlights)])
    ELSE tailored

\* lines 333-340 of _tailor_experience: what one entry adds to the result
tailor_experience_entry(tailored, current_entry, ret) ==
    IF Truthy(ret)
    THEN Append(tailored,
                [current_entry EXCEPT
                    !.highlights = GetOr(ret.val, "highlights", current_entry.highlights)])
    ELSE Append(tailored, current_entry)

\* nothing left of the skills when the call failed
tailor_skills_empty(ret, current_skills) ==
    IF Truthy(ret) THEN GetOr(ret.val, "skills", current_skills) ELSE <<>>

\* lines 354-358 of _tailor_skills
tailor_skills(ret, current_skills) ==
    IF Truthy(ret) THEN GetOr(ret.val, "skills", current_skills) ELSE current_skills

\* lines 432-434 of generate_tailored_resume; summary [] makes [0] raise IndexError
OriginalSummary(current_dynamic) ==
    LET summary == GetOr(current_dynamic, "summary", <<"">>)
    IN IF Len(summary) = 0 THEN Loaded(TRUE, "") ELSE Loaded(FALSE, summary[1])

OriginalExperience(current_dynamic) == GetOr(current_dynamic, "experience", <<>>)

OriginalSkills(current_dynamic) == GetOr(current_dynamic, "skills", <<>>)

\* lines 450-466 of generate_tailored_resume: the draft, merged with no keywords
MergedDraft(static_sections, base_resume, renderer_config, summary, experience, skills) ==
    LET tailored_dynamic == <<<<"summary", <<summary>>>>, <<"skills", skills>>,
                              <<"experience", experience>>>>
        base_design == IF Has(base_resume, "design")
                       THEN Some(Get(base_resume, "design")) ELSE None
    IN merge_sections(static_sections, tailored_dynamic, <<>>,
                      Some(renderer_config), base_design)

\* the keywords stored only when some were found
CompleteResume_skip_empty(static_sections, base_resume, renderer_config, summary, experience, skills) ==
    LET merged == MergedDraft(static_sections, base_resume, renderer_config, summary,
                              experience, skills)
        bold_keywords == extract_technical_terms(DumpWords(merged))
    IN IF bold_keywords = <<>>
       THEN merged
       ELSE Put(merged, "rendercv_settings",
                Put(GetOr(merged, "rendercv_settings", EmptyDict),
                    "bold_keywords", bold_keywords))

\* lines 450-476 of generate_tailored_resume: the document that is saved
CompleteResume(static_sections, base_resume, renderer_config, summary, experience, skills) ==
    LET merged == MergedDraft(static_sections, base_resume, renderer_config, summary,
                              experience, skills)
        bold_keywords == extract_technical_terms(DumpWords(merged))
        with_settings == IF ~Has(merged, "rendercv_settings")
                         THEN Put(merged, "rendercv_settings", EmptyDict) ELSE merged
    IN Put(with_settings, "rendercv_settings",
           Put(Get(with_settings, "rendercv_settings"), "bold_keywords", bold_keywords))

----------------------------------------------------------------------------
(* The documents and job files the commands are run on.                    *)

Companies == <<"Acme", "Globex", "Initech", "Umbrella">>

BaseEntry(i) == [company |-> Companies[i], position |-> "Dev", highlights |-> <<"Built", "python">>]

BaseEntries(n) == [i \in 1..n |-> BaseEntry(i)]

BaseSkills == <<[label |-> "Languages", details |-> "Python"]>>

BaseResume(sections) == <<<<"cv", <<<<"name", "Jane">>, <<"sections", sections>>>>>>>>

\* summary of one paragraph, n experience entries, skills
FullBase(n) ==
    BaseResume(<<<<"summary", <<"python">>>>, <<"experience", BaseEntries(n)>>,
                 <<"skills", BaseSkills>>>>)

\* summary of two paragraphs, and a design block
TwoParagraphBase ==
    Append(BaseResume(<<<<"summary", <<"python", "Go">>>>, <<"experience", BaseEntries(1)>>,
                        <<"skills", BaseSkills>>>>),
           <<"design", <<<<"theme", "classic">>>>>>)

\* no summary section
NoSummaryBase ==
    BaseResume(<<<<"experience", BaseEntries(1)>>, <<"skills", BaseSkills>>>>)

\* an empty summary section, and no skills
EmptySummaryBase ==
    BaseResume(<<<<"summary", <<>>>>, <<"experience", BaseEntries(1)>>>>)

\* a resume that names no technology
PlainBase ==
    BaseResume(<<<<"summary", <<"Led">>>>,
                 <<"skills", <<[label |-> "Tools", details |-> "Built"]>>>>>>)

BaseResumes ==
    {FullBase(n) : n \in 0..MaxEntries}
    \cup {TwoParagraphBase, NoSummaryBase, EmptySummaryBase, PlainBase}

StaticDocuments ==
    {<<<<"cv", <<<<"name", "Jane">>, <<"email", "jane">>,
                 <<"sections", <<<<"education", <<"MIT", "Docker">>>>>>>>>>>>>>,
     <<<<"cv", <<<<"sections", <<<<"projects", <<"git">>>>, <<"summary", <<"react">>>>>>>>,
                 <<"name", "Jane">>>>>>>>}

\* the stems of the job files, which name the batch's output folders
JobStems == <<"acme", "python", "docker", "dev", "go">>

\* settings.rendercv_theme and the output folder (lines 67-70, 251-257 of commands.py)
ServiceRendererConfig(cmd, j) ==
    RendererConfig("engineeringresumes",
                   IF cmd = "batch" THEN <<"batch_output", JobStems[j]>> ELSE <<"output">>,
                   EmptyDict)

----------------------------------------------------------------------------
(* The generate and batch commands.                                        *)

CliIdle ==
    /\ command = "none"
    /\ n_jobs = 0
    /\ base_file = None
    /\ static_file = None
    /\ job = 0
    /\ pc = "idle"
    /\ entry = 0
    /\ job_details = None
    /\ tailored_summary = ""
    /\ tailored_experience = <<>>
    /\ tailored_skills = <<>>
    /\ complete_resume = EmptyDict
    /\ rets = <<>>
    /\ in_run = FALSE
    /\ original_experience = <<>>
    /\ trace = <<>>
    /\ run_calls = 0
    /\ started = <<>>
    /\ written = {}
    /\ rendered = {}
    /\ reported = {}

FreshLocals ==
    /\ entry = 0
    /\ job_details = None
    /\ tailored_summary = ""
    /\ tailored_experience = <<>>
    /\ tailored_skills = <<>>
    /\ complete_resume = EmptyDict
    /\ rets = <<>>
    /\ in_run = FALSE
    /\ original_experience = <<>>
    /\ trace = <<>>
    /\ run_calls = 0

FreshLocals_next ==
    /\ entry' = 0
    /\ job_details' = None
    /\ tailored_summary' = ""
    /\ tailored_experience' = <<>>
    /\ tailored_skills' = <<>>
    /\ complete_resume' = EmptyDict
    /\ rets' = <<>>
    /\ in_run' = FALSE
    /\ original_experience' = <<>>
    /\ trace' = <<>>
    /\ run_calls' = 0

resultVars ==
    <<entry, job_details, tailored_summary, tailored_experience, tailored_skills,
      complete_resume, rets>>

localVars == <<resultVars, in_run, original_experience, trace, run_calls>>

fileVars == <<command, n_jobs, base_file, static_file>>

\* resume-tailor generate JOB: one job file, any base resume and static sections
GenerateInit ==
    /\ command = "generate"
    /\ n_jobs = 1
    /\ base_file \in {None} \cup {Some(b) : b \in BaseResumes}
    /\ static_file \in {None} \cup {Some(d) : d \in StaticDocuments}
    /\ job = 1
    /\ pc = "start"
    /\ FreshLocals
    /\ started = <<>>
    /\ written = {}
    /\ rendered = {}
    /\ reported = {}

\* resume-tailor batch DIR: create_service is given no static sections path
BatchInit ==
    /\ command = "batch"
    /\ n_jobs \in 0..MaxJobs
    /\ base_file \in {None, Some(FullBase(1))}
    /\ static_file = None
    /\ job = 1
    /\ pc = "start"
    /\ FreshLocals
    /\ started = <<>>
    /\ written = {}
    /\ rendered = {}
    /\ reported = {}

\* the frame of a new call of _llm_call_with_retry
BeginCall(keys) ==
    /\ r_phase' = "loop"
    /\ max_retries' = DefaultMaxRetries
    /\ expected_keys' = keys
    /\ attempt' = 0
    /\ r_calls' = 0
    /\ r_ret' = None
    /\ UNCHANGED r_log

NoCall ==
    /\ r_phase' = "idle"
    /\ max_retries' = 0
    /\ expected_keys' = <<>>
    /\ attempt' = 0
    /\ r_calls' = 0
    /\ r_ret' = None
    /\ UNCHANGED r_log

\* the except clause of the batch loop re-raising
OnFailure_reraise(cmd, in_try) ==
    IF cmd = "generate" /\ in_try THEN "exit1" ELSE "crashed"

\* what becomes of an exception: batch reports it and goes on with the next job
\* (commands.py lines 265-267); generate turns it into Exit(1) inside its try
\* (lines 169-174) and lets it escape elsewhere
OnFailure(cmd, in_try) ==
    CASE cmd = "batch" -> "continue"
      [] in_try -> "exit1"
      [] OTHER -> "crashed"

\* an exception at `step` of the job at hand, which the command prints or lets
\* escape; `keep` says what becomes of the locals when the command does not go
\* on with another job
Fail(step, in_try, keep) ==
    /\ reported' = reported \cup {<<job, step>>}
    /\ IF OnFailure(command, in_try) = "continue"
       THEN /\ job' = job + 1
            /\ pc' = IF job < n_jobs THEN "start" ELSE "done"
            /\ FreshLocals_next
       ELSE /\ pc' = OnFailure(command, in_try)
            /\ UNCHANGED job
            /\ keep

\* batch on a directory without job files (commands.py lines 241-243)
BatchEmpty ==
    /\ command = "batch"
    /\ pc = "start"
    /\ n_jobs = 0
    /\ pc' = "exit1"
    /\ UNCHANGED <<fileVars, job, localVars, started, written, rendered, reported>>
    /\ UNCHANGED retryVars

\* the job file is read and the service created; extract_jd_details is the first
\* thing either command has the service do: generate calls it itself
\* (commands.py 135-170), batch enters generate_tailored_resume with no job
\* details (commands.py 255-260; service.py 423-424)
StartJob ==
    /\ pc = "start"
    /\ job <= n_jobs
    /\ started' = Append(started, job)
    /\ \E readable \in BOOLEAN :
         IF readable
         THEN /\ pc' = "extract"
              /\ BeginCall(<<"company", "role">>)
              /\ in_run' = (command = "batch")
              /\ command = "batch" => needs_extraction(None)
              /\ trace' = <<Step("jd", 0)>>
              /\ UNCHANGED <<job, resultVars, original_experience, run_calls, reported>>
         ELSE /\ Fail("load", TRUE, UNCHANGED localVars)
              /\ UNCHANGED retryVars
    /\ UNCHANGED <<fileVars, written, rendered>>

\* one iteration of the retry loop of the call in progress
PortCall ==
    /\ pc \in {"extract", "summary", "experience", "skills"}
    /\ r_phase = "loop"
    /\ \E resp \in Responses :
         LET out == llm_call_iteration(resp, expected_keys, attempt, max_retries)
         IN /\ r_calls' = r_calls + 1
            /\ r_phase' = CASE out.act = "continue" -> "loop"
                             [] out.act = "return" -> "returned"
                             [] OTHER -> "raised"
            /\ attempt' = IF out.act = "continue" THEN attempt + 1 ELSE attempt
            /\ r_ret' = out.ret
    /\ run_calls' = IF in_run THEN run_calls + 1 ELSE run_calls
    /\ UNCHANGED <<max_retries, expected_keys, r_log>>
    /\ UNCHANGED <<fileVars, job, pc, resultVars, in_run, original_experience, trace,
                   started, written, rendered, reported>>

\* the completion port's exception leaves _llm_call_with_retry and the service
CallRaised ==
    /\ pc \in {"extract", "summary", "experience", "skills"}
    /\ r_phase = "raised"
    /\ Fail("port", pc = "extract" /\ ~in_run, UNCHANGED localVars)
    /\ NoCall
    /\ UNCHANGED <<fileVars, started, written, rendered>>

Dynamic == extract_dynamic_sections(load_base_resume(base_file).val)

\* extract_jd_details returns. In generate it returns to the command, which
\* enters generate_tailored_resume with the details (commands.py 170-192); the
\* run extracts them itself when it has to (service.py 423-424). Then the run
\* loads the documents (426-434) and starts on the summary
ExtractReturn ==
    /\ pc = "extract"
    /\ r_phase = "returned"
    /\ LET details == extract_jd_details(r_ret)
           keep == /\ job_details' = Some(details)
                   /\ rets' = Append(rets, r_ret)
                   /\ in_run' = TRUE
                   /\ UNCHANGED <<entry, tailored_summary, tailored_experience,
                                  tailored_skills, complete_resume, run_calls>>
           stop == keep /\ UNCHANGED <<original_experience, trace>>
       IN IF ~in_run /\ needs_extraction(Some(details))
          THEN /\ keep
               /\ UNCHANGED original_experience
               /\ trace' = Append(trace, Step("jd", 0))
               /\ pc' = "extract"
               /\ BeginCall(<<"company", "role">>)
               /\ UNCHANGED <<job, reported>>
          ELSE IF load_base_resume(base_file).raised
          THEN Fail("base", FALSE, stop) /\ NoCall
          ELSE IF OriginalSummary(Dynamic).raised
               THEN Fail("summary", FALSE, stop) /\ NoCall
               ELSE /\ keep
                    /\ original_experience' = OriginalExperience(Dynamic)
                    /\ trace' = Append(trace, Step("summary", 0))
                    /\ pc' = "summary"
                    /\ BeginCall(<<"summary">>)
                    /\ UNCHANGED <<job, reported>>
    /\ UNCHANGED <<fileVars, started, written, rendered>>

\* _tailor_summary returns; _tailor_experience starts on the first entry, or
\* returns at once and _tailor_skills starts
SummaryReturn ==
    /\ pc = "summary"
    /\ r_phase = "returned"
    /\ rets' = Append(rets, r_ret)
    /\ tailored_summary' = tailor_summary(r_ret, OriginalSummary(Dynamic).val)
    /\ LET nxt == after_summary(Len(original_experience))
       IN /\ pc' = nxt.step
          /\ entry' = nxt.entry
          /\ trace' = Append(trace, nxt)
          /\ BeginCall(IF nxt.step = "experience" THEN <<"highlights">> ELSE <<"skills">>)
    /\ UNCHANGED <<fileVars, job, job_details, tailored_experience, tailored_skills,
                   complete_resume, in_run, original_experience, run_calls,
                   started, written, rendered, reported>>

\* the call for one experience entry returns; the loop goes on with the next
\* entry, or _tailor_skills starts
ExperienceReturn ==
    /\ pc = "experience"
    /\ r_phase = "returned"
    /\ rets' = Append(rets, r_ret)
    /\ tailored_experience' =
         tailor_experience_entry(tailored_experience, original_experience[entry], r_ret)
    /\ original_experience' =
         [original_experience EXCEPT ![entry] = entry_after_tailoring(@, r_ret)]
    /\ LET nxt == after_entry(entry, Len(original_experience))
       IN /\ pc' = nxt.step
          /\ entry' = IF nxt.step = "experience" THEN nxt.entry ELSE entry
          /\ trace' = Append(trace, nxt)
          /\ BeginCall(IF nxt.step = "experience" THEN <<"highlights">> ELSE <<"skills">>)
    /\ UNCHANGED <<fileVars, job, job_details, tailored_summary, tailored_skills,
                   complete_resume, in_run, run_calls,
                   started, written, rendered, reported>>

\* _tailor_skills returns; the document is merged, its keywords extracted and
\* the result saved (service.py 450-479)
SkillsReturn ==
    /\ pc = "skills"
    /\ r_phase = "returned"
    /\ rets' = Append(rets, r_ret)
    /\ tailored_skills' = tailor_skills(r_ret, OriginalSkills(Dynamic))
    /\ complete_resume' =
         CompleteResume(load_static_sections(static_file), load_base_resume(base_file).val,
                        ServiceRendererConfig(command, job), tailored_summary,
                        tailored_experience, tailor_skills(r_ret, OriginalSkills(Dynamic)))
    /\ trace' = trace \o <<Step("merge", 0), Step("keywords", 0), Step("save", 0)>>
    /\ written' = written \cup {job}
    /\ pc' = "render"
    /\ NoCall
    /\ UNCHANGED <<fileVars, job, entry, job_details, tailored_summary,
                   tailored_experience, in_run, original_experience, run_calls,
                   started, rendered, reported>>

\* the renderer is run on the saved document (commands.py 194-201, 262-263);
\* generate may be told not to render
Render ==
    /\ pc = "render"
    /\ \E outcome \in {"rendered", "failed", "skipped"} :
         CASE outcome = "rendered" ->
                /\ rendered' = rendered \cup {job}
                /\ IF command = "batch"
                   THEN /\ job' = job + 1
                        /\ pc' = IF job < n_jobs THEN "start" ELSE "done"
                        /\ FreshLocals_next
                   ELSE /\ pc' = "done"
                        /\ UNCHANGED <<job, localVars>>
                /\ UNCHANGED reported
           [] outcome = "failed" ->
                /\ Fail("render", FALSE, UNCHANGED localVars)
                /\ UNCHANGED rendered
           [] OTHER ->
                /\ command = "generate"
                /\ pc' = "done"
                /\ UNCHANGED <<job, localVars, rendered, reported>>
    /\ UNCHANGED <<fileVars, started, written>>
    /\ UNCHANGED retryVars

----------------------------------------------------------------------------
(* Claims about the commands and generate_tailored_resume.                 *)
(* rets holds what _llm_call_with_retry returned to the job at hand: the   *)
(* job details first, the summary second, then one per experience entry,   *)
(* the skills last.                                                        *)

Unavailable(ret) == ~ret.some

\* C3: every experience entry whose call ended Unavailable is in the output, at
\* its position, as the original entry, and every entry's output is determined
\* by the original entry and the result of its own call alone.
C3_EntryFallback ==
    \A i \in 1..Len(tailored_experience) :
        LET original == OriginalExperience(Dynamic)[i]
            ret == rets[2 + i]
        IN tailored_experience[i] =
              IF Unavailable(ret) THEN original
              ELSE [original EXCEPT !.highlights = Get(ret.val, "highlights")]

C3_Witness ==
    /\ Len(tailored_experience) = 2
    /\ Unavailable(rets[3])
    /\ ~Unavailable(rets[4])
    /\ tailored_experience[1] = OriginalExperience(Dynamic)[1]
    /\ tailored_experience[2].company = OriginalExperience(Dynamic)[2].company
    /\ tailored_experience[2].highlights = <<"go", "Led">>

BaseSections == GetOr(GetOr(base_file.val, "cv", EmptyDict), "sections", EmptyDict)

SavedSections == Get(Get(complete_resume, "cv"), "sections")

AllUnavailable == \A i \in 1..Len(rets) : Unavailable(rets[i])

\* C6: when every call of a run ended Unavailable and the port raised nothing,
\* the run gets to save a document, and the summary, skills and experience
\* sections of the saved document are those of the base resume.
C6_FullyOriginal ==
    /\ (pc = "render" /\ AllUnavailable) =>
          \A k \in {"summary", "skills", "experience"} :
              /\ Has(SavedSections, k) = Has(BaseSections, k)
              /\ Has(BaseSections, k) => Get(SavedSections, k) = Get(BaseSections, k)
    /\ (base_file.some /\ Len(rets) > 0 /\ AllUnavailable) =>
          \A r \in reported : r[1] = job => r[2] \in {"port", "render"}

Reported(j) == \E r \in reported : r[1] = j

\* C7: the batch command starts every job file once and in turn, never lets a
\* job's exception out, and ends with every job either rendered or reported.
C7_BatchIsolation ==
    command = "batch" =>
        /\ pc # "crashed"
        /\ pc = "exit1" => n_jobs = 0
        /\ \A i \in 1..Len(started) : started[i] = i
        /\ \A j \in 1..n_jobs : ~(j \in rendered /\ Reported(j))
        /\ pc = "done" =>
              /\ Len(started) = n_jobs
              /\ \A j \in 1..n_jobs : j \in rendered \/ Reported(j)

C7_Witness ==
    /\ command = "batch"
    /\ n_jobs = 3
    /\ pc = "done"
    /\ reported = {<<2, "load">>}
    /\ written = {1, 3}
    /\ rendered = {1, 3}

\* C8: without a base resume no job gets to a section-tailoring call or to a
\* saved document, and the job ends with the exception of the load; without
\* static sections the saved document holds the tailored sections alone.
C8_MissingBase ==
    /\ (command # "none" /\ ~base_file.some) =>
          /\ pc \notin {"summary", "experience", "skills", "render"}
          /\ Len(rets) <= 1
          /\ written = {}
          /\ command = "generate" => pc # "done"
          /\ pc = "done" =>
                \A j \in 1..n_jobs :
                    \E step \in {"load", "port", "base"} : <<j, step>> \in reported
    /\ (pc = "render" /\ ~static_file.some) =>
          /\ Keys(Get(complete_resume, "cv")) = <<"sections">>
          /\ Keys(SavedSections) = DynamicKeys

C8_Witness ==
    /\ command = "generate"
    /\ ~base_file.some
    /\ pc = "crashed"
    /\ Len(rets) = 1
    /\ reported = {<<1, "base">>}
    /\ written = {}

\* C9: once extract_jd_details has returned, the details are the empty mapping
\* when the call ended Unavailable and otherwise a mapping of exactly company
\* and role with the values of the result; generate exits with status 1 from
\* the extraction only on an exception, never on what the call returned.
C9_JobDetails ==
    /\ Len(rets) >= 1 =>
          /\ job_details.some
          /\ IF Unavailable(rets[1])
             THEN job_details.val = EmptyDict
             ELSE /\ Keys(job_details.val) = <<"company", "role">>
                  /\ Get(job_details.val, "company") = Get(rets[1].val, "company")
                  /\ Get(job_details.val, "role") = Get(rets[1].val, "role")
    /\ (command = "generate" /\ pc = "exit1") => rets = <<>>

C9_Witness ==
    /\ Len(rets) >= 1
    /\ Unavailable(rets[1])
    /\ job_details = Some(EmptyDict)
    /\ pc = "summary"

SkillLabels(skills) == [i \in 1..Len(skills) |-> skills[i].label]

\* C15: the labels of the skill categories of the saved document are the labels
\* of the base resume's skill categories.
C15_LabelsKept ==
    pc = "render" =>
        {SkillLabels(Get(SavedSections, "skills"))[i] :
            i \in 1..Len(Get(SavedSections, "skills"))}
        = {SkillLabels(OriginalSkills(Dynamic))[i] : i \in 1..Len(OriginalSkills(Dynamic))}

\* C22: once the summary call has returned, the tailored summary is the original
\* summary when the call ended Unavailable, and otherwise the first element of
\* the result's summary field when that is a list, the field itself when not.
C22_SummaryFromField ==
    Len(rets) >= 2 =>
        IF Unavailable(rets[2])
        THEN tailored_summary = OriginalSummary(Dynamic).val
        ELSE LET field == Get(rets[2].val, "summary")
             IN IF field.t = "list"
                THEN Len(field.v) > 0 /\ tailored_summary = field.v[1]
                ELSE tailored_summary = field.v[1]

\* C23: a summary call that ended Unavailable leaves the original summary, a
\* skills call that ended Unavailable leaves the original skills, and neither
\* ends the run.
C23_FallbackToOriginal ==
    /\ (Len(rets) >= 2 /\ Unavailable(rets[2])) =>
          /\ tailored_summary = OriginalSummary(Dynamic).val
          /\ pc \in {"experience", "skills", "render", "done", "crashed"}
          /\ pc = "crashed" => \E r \in reported : r[2] \in {"port", "render"}
    /\ (pc = "render" /\ Unavailable(rets[Len(rets)])) =>
          /\ tailored_skills = OriginalSkills(Dynamic)
          /\ Get(SavedSections, "skills") = OriginalSkills(Dynamic)

C23_Witness ==
    /\ pc = "render"
    /\ Unavailable(rets[2])
    /\ Unavailable(rets[Len(rets)])
    /\ tailored_summary = "python"
    /\ tailored_skills = BaseSkills
    /\ \E i \in 3..(Len(rets) - 1) : ~Unavailable(rets[i])

Loaded_pcs == {"summary", "experience", "skills", "render"}

\* C24: the list _tailor_experience returns has the length of the list it was
\* given, entry i of it equals entry i of the input in every field other than
\* highlights, whatever the calls returned, and the entries of the input list
\* are as they were loaded.
C24_ExperienceFrame ==
    pc \in Loaded_pcs =>
        LET orig == OriginalExperience(Dynamic)
        IN /\ original_experience = orig
           /\ pc \in {"skills", "render"} => Len(tailored_experience) = Len(orig)
           /\ pc = "experience" => Len(tailored_experience) = entry - 1
           /\ \A i \in 1..Len(tailored_experience) :
                 /\ i <= Len(orig)
                 /\ [tailored_experience[i] EXCEPT !.highlights = orig[i].highlights]
                      = orig[i]

C24_Witness ==
    /\ pc = "render"
    /\ Len(original_experience) = 2
    /\ ~Unavailable(rets[3])
    /\ Unavailable(rets[4])
    /\ tailored_experience[1].highlights # original_experience[1].highlights
    /\ tailored_experience[2] = original_experience[2]

\* the steps of a run over n experience entries
Canonical(n) ==
    <<Step("jd", 0), Step("summary", 0)>>
    \o [i \in 1..n |-> Step("experience", i)]
    \o <<Step("skills", 0), Step("merge", 0), Step("keywords", 0), Step("save", 0)>>

IsPrefix(p, q) == Len(p) <= Len(q) /\ SubSeq(q, 1, Len(p)) = p

\* C25: the steps of a job are begun in the order job details, summary, the
\* experience entries in original order, skills, merge, keyword extraction,
\* save; every completion call belongs to the step begun last, so that the
\* calls of a step are over before the next step's first; the document is
\* saved once, as the last step.
C25_Sequential ==
    /\ IsPrefix(trace, Canonical(Len(original_experience)))
    /\ pc = "render" => trace = Canonical(Len(original_experience))
    /\ r_phase = "loop" =>
          /\ trace # <<>>
          /\ trace[Len(trace)] = Step(IF pc = "extract" THEN "jd" ELSE pc,
                                      IF pc = "experience" THEN entry ELSE 0)
    /\ pc = "experience" => Len(tailored_experience) = entry - 1
    /\ (job \in written) <=> (trace # <<>> /\ trace[Len(trace)] = Step("save", 0))

C25_Witness ==
    /\ pc = "render"
    /\ Len(original_experience) = 2
    /\ trace = Canonical(2)
    /\ run_calls > 6
    /\ job \in written

\* the document before the keywords are stored in it
Draft ==
    MergedDraft(load_static_sections(static_file), load_base_resume(base_file).val,
                ServiceRendererConfig(command, job), tailored_summary,
                tailored_experience, tailored_skills)

\* C26: the saved document has a settings block with a bold_keywords field,
\* which is what the keyword extractor returns on the draft merged with an
\* empty keyword list; the draft has no bold_keywords field; the field is
\* there, empty, when no term is found.
C26_KeywordsOfDraft ==
    pc = "render" =>
        /\ Has(Draft, "rendercv_settings")
        /\ ~Has(Get(Draft, "rendercv_settings"), "bold_keywords")
        /\ Has(complete_resume, "rendercv_settings")
        /\ Has(Get(complete_resume, "rendercv_settings"), "bold_keywords")
        /\ Get(Get(complete_resume, "rendercv_settings"), "bold_keywords")
             = extract_technical_terms(DumpWords(Draft))

C26_Witness ==
    /\ pc = "render"
    /\ base_file = Some(PlainBase)
    /\ Has(complete_resume, "rendercv_settings")
    /\ Has(Get(complete_resume, "rendercv_settings"), "bold_keywords")
    /\ Get(Get(complete_resume, "rendercv_settings"), "bold_keywords") = <<>>

JdSteps == Cardinality({i \in 1..Len(trace) : trace[i].step = "jd"})

\* C28: generate_tailored_resume entered with job details, the empty mapping of
\* a failed extraction included, begins no extraction; a job of either command
\* has its details extracted once, by at most max_retries + 1 completion calls.
C28_ExtractOnce ==
    /\ JdSteps <= 1
    /\ pc \in Loaded_pcs => JdSteps = 1 /\ job_details.some
    /\ (command = "generate" /\ in_run) => pc # "extract"
    /\ pc = "extract" => r_calls <= DefaultMaxRetries + 1

C28_Witness ==
    /\ command = "generate"
    /\ in_run
    /\ job_details = Some(EmptyDict)
    /\ Unavailable(rets[1])
    /\ pc = "render"
    /\ JdSteps = 1

\* the calls of _llm_call_with_retry a run over n entries makes
Frames(n) == n + (IF command = "batch" THEN 3 ELSE 2)

\* C29: a run makes at most 3 completion calls for each of its n + 2 calls of
\* _llm_call_with_retry when job details are supplied (n + 3 when they are
\* not), and a run that has saved its document made at least one for each.
C29_CallBounds ==
    /\ in_run => run_calls <= 3 * Frames(Len(original_experience))
    /\ in_run => run_calls <= 3 * (Len(rets) + 1)
    /\ pc = "render" =>
          /\ Len(rets) = Len(original_experience) + 3
          /\ run_calls >= Frames(Len(original_experience))

C29_Witness ==
    /\ pc = "render"
    /\ command = "batch"
    /\ Len(original_experience) = 1
    /\ run_calls = 12
    /\ \E i \in 1..Len(rets) : ~Unavailable(rets[i])

\* C30: every keyword of the saved document occurs, whatever its case, in the
\* words of the document's cv block.
C30_KeywordsFromCv ==
    pc = "render" =>
        LET kws == Get(Get(complete_resume, "rendercv_settings"), "bold_keywords")
            words == DumpCv(Get(complete_resume, "cv"))
        IN \A i \in 1..Len(kws) :
              \E j \in 1..Len(words) : Lower(words[j]) = Lower(kws[i])

----------------------------------------------------------------------------
(* Specifications.                                                        *)

pureVars == <<cleanVars, entryVars, geminiVars>>

PureIdle == CleanIdle /\ EntryIdle /\ GeminiIdle

\* merge_sections called twice on any input
InitMerge == MergeInit /\ RetryIdle /\ KeywordIdle /\ CliIdle /\ PureIdle

NextMerge ==
    \/ Merge /\ UNCHANGED <<retryVars, keywordVars, cliVars, pureVars>>
    \/ MergeAgain /\ UNCHANGED <<retryVars, keywordVars, cliVars, pureVars>>

SpecMerge == InitMerge /\ [][NextMerge]_vars

\* _llm_call_with_retry called once with any max_retries and expected keys
InitRetry == RetryInit /\ MergeIdle /\ KeywordIdle /\ CliIdle /\ PureIdle

NextRetry ==
    \/ RetryIteration /\ UNCHANGED <<mergeVars, keywordVars, cliVars, pureVars>>
    \/ RetryLoopExit /\ UNCHANGED <<mergeVars, keywordVars, cliVars, pureVars>>

SpecRetry == InitRetry /\ [][NextRetry]_vars

\* _extract_technical_terms called twice on any text
InitKeywords == KeywordInit /\ MergeIdle /\ RetryIdle /\ CliIdle /\ PureIdle

NextKeywords ==
    \/ ExtractTerms /\ UNCHANGED <<mergeVars, retryVars, cliVars, pureVars>>
    \/ ExtractTermsAgain /\ UNCHANGED <<mergeVars, retryVars, cliVars, pureVars>>

SpecKeywords == InitKeywords /\ [][NextKeywords]_vars

\* _clean_llm_output called once on any response
InitClean ==
    CleanInit /\ EntryIdle /\ GeminiIdle /\ MergeIdle /\ RetryIdle /\ KeywordIdle /\ CliIdle

NextClean ==
    Clean /\ UNCHANGED <<entryVars, geminiVars, mergeVars, retryVars, keywordVars, cliVars>>

SpecClean == InitClean /\ [][NextClean]_vars

\* an ExperienceEntry constructed from any highlights
InitEntry ==
    EntryInit /\ CleanIdle /\ GeminiIdle /\ MergeIdle /\ RetryIdle /\ KeywordIdle /\ CliIdle

NextEntry ==
    ConstructEntry
    /\ UNCHANGED <<cleanVars, geminiVars, mergeVars, retryVars, keywordVars, cliVars>>

SpecEntry == InitEntry /\ [][NextEntry]_vars

\* GeminiLLM.chat called once on any messages
InitGemini ==
    GeminiInit /\ CleanIdle /\ EntryIdle /\ MergeIdle /\ RetryIdle /\ KeywordIdle /\ CliIdle

NextGemini ==
    Chat /\ UNCHANGED <<cleanVars, entryVars, mergeVars, retryVars, keywordVars, cliVars>>

SpecGemini == InitGemini /\ [][NextGemini]_vars

\* the generate command on one job file, or the batch command on a directory
Init == (GenerateInit \/ BatchInit) /\ RetryIdle /\ MergeIdle /\ KeywordIdle /\ PureIdle

Next ==
    \/ BatchEmpty /\ UNCHANGED <<mergeVars, keywordVars, pureVars>>
    \/ StartJob /\ UNCHANGED <<mergeVars, keywordVars, pureVars>>
    \/ PortCall /\ UNCHANGED <<mergeVars, keywordVars, pureVars>>
    \/ CallRaised /\ UNCHANGED <<mergeVars, keywordVars, pureVars>>
    \/ ExtractReturn /\ UNCHANGED <<mergeVars, keywordVars, pureVars>>
    \/ SummaryReturn /\ UNCHANGED <<mergeVars, keywordVars, pureVars>>
    \/ ExperienceReturn /\ UNCHANGED <<mergeVars, keywordVars, pureVars>>
    \/ SkillsReturn /\ UNCHANGED <<mergeVars, keywordVars, pureVars>>
    \/ Render /\ UNCHANGED <<mergeVars, keywordVars, pureVars>>

Spec == Init /\ [][Next]_vars

====
